---- MODULE Spec2Model ----
(***************************************************************************)
(* Model of src/main7.py: a dialogue loop over a conversation memory and a *)
(* FAISS vector store, both with a durable copy (memory.pkl and the        *)
(* vectorstore_index directory), a Notion page the summaries are appended  *)
(* to, and the refresh commands that reset the two stores.                 *)
(*                                                                         *)
(* Texts are sequences of symbols.  The durable copies, the capability     *)
(* calls (llm.invoke, the embedding calls inside FAISS, the Notion append) *)
(* and the file operations may fail; each failure is an input of the       *)
(* action that makes the call.                                             *)
(***************************************************************************)
EXTENDS Naturals, Sequences, FiniteSets

VARIABLES
    pc,          \* position of the process (startup, loop, finally)
    memory,      \* global memory: the chat messages, in order
    memLoaded,   \* memory has been bound (line 67 has run)
    vectorstore, \* global vectorstore: the texts of the index, in order
    vsLoaded,    \* vectorstore has been bound (line 109 has run)
    memFile,     \* durable history file memory.pkl
    vsDisk,      \* durable index directory vectorstore_index
    user_input,  \* the line read by input()
    verdict,     \* value returned by is_valid_save_command in this turn
    summary,     \* local summary of the save branch
    retrieved,   \* local docs of the conversation branch
    trace,       \* calls made since the last input() returned
    out,         \* messages printed since the last input() returned
    pre,         \* the stores as they were when the last input() returned
    returned,    \* the handler that last ran to its end
    fault,       \* the failure injected since the last input() returned
    saves,       \* the save_memory calls of this process
    exitCause,   \* why the loop was left
    prevExit     \* how the previous process ended, until the first input()

vars == <<pc, memory, memLoaded, vectorstore, vsLoaded, memFile, vsDisk,
          user_input, verdict, summary, retrieved, trace, out, pre,
          returned, fault, saves, exitCause, prevExit>>

----------------------------------------------------------------------------
(* Bounds of the model *)

MaxHist == 2
MaxEntries == 2

(* Program constants *)

K == 2

Placeholder == <<"dummy">>
Trigger == <<"ho", "zon">>
Affirm == <<"ha", "i">>

ExitWords == {<<"exit">>, <<"quit">>}
RefreshAllWords == {<<"refresh">>, <<"clear">>}
RefreshMemoryWord == <<"refresh", "memory">>
RefreshVectorstoreWord == <<"refresh", "vectorstore">>

(* Inputs the environment supplies *)

CommandInputs ==
    {<<"EXIT">>, <<"quit">>, <<"refresh">>, <<"Clear">>,
     <<"refresh", "memory">>, <<"refresh", "vectorstore">>}
DialogueInputs == {<<"ho", "zon">>, <<"ho", "i", "zon">>}
Inputs == CommandInputs \cup DialogueInputs

Decisions == {<<"ha", "i">>, <<"i", "i", "e">>, <<"i", "ha", "i">>}
Replies == {<<"r1">>, <<"r2">>}

----------------------------------------------------------------------------
(* Text helpers *)

LowerSym(c) ==
    CASE c = "EXIT" -> "exit"
      [] c = "Clear" -> "clear"
      [] OTHER -> c

Lower(s) == [i \in 1..Len(s) |-> LowerSym(s[i])]

Contains(sub, s) ==
    \E i \in 1..Len(s) :
        /\ i + Len(sub) - 1 <= Len(s)
        /\ SubSeq(s, i, i + Len(sub) - 1) = sub

Turn(role, content) == [role |-> role, content |-> content]

Contents(log) == [i \in 1..Len(log) |-> log[i].content]

Ev(op, text, ctx, docs, k, ok, res) ==
    [op |-> op, text |-> text, ctx |-> ctx, docs |-> docs, k |-> k,
     ok |-> ok, res |-> res]

----------------------------------------------------------------------------
(* Durable files *)

NoFile == [kind |-> "absent", data |-> <<>>]
TornFile == [kind |-> "torn", data |-> <<>>]
FullFile(d) == [kind |-> "full", data |-> d]

path_exists(f) == f.kind # "absent"

----------------------------------------------------------------------------
(* The functions of the program.  A world w is the part of the state the   *)
(* refresh functions read and write; f is the failure the environment      *)
(* injects into the call ("none" for no failure).                          *)

World ==
    [memory |-> memory, memFile |-> memFile, vectorstore |-> vectorstore,
     vsDisk |-> vsDisk, out |-> <<>>, raised |-> FALSE, fault |-> "none"]

(* os.remove(MEMORY_PATH): raises when the file is missing or busy *)
os_remove(w, f) ==
    IF ~path_exists(w.memFile) THEN [w EXCEPT !.raised = TRUE]
    ELSE IF f = "remove" THEN [w EXCEPT !.raised = TRUE, !.fault = "remove"]
    ELSE [w EXCEPT !.memFile = NoFile]

(* shutil.rmtree(VECTORSTORE_PATH): raises when the directory is missing,  *)
(* or on a failure that leaves it whole or partly deleted                  *)
shutil_rmtree(w, f) ==
    IF ~path_exists(w.vsDisk) THEN [w EXCEPT !.raised = TRUE]
    ELSE IF f = "rmtree_whole" THEN [w EXCEPT !.raised = TRUE, !.fault = f]
    ELSE IF f = "rmtree_partial"
        THEN [w EXCEPT !.raised = TRUE, !.fault = f, !.vsDisk = TornFile]
    ELSE [w EXCEPT !.vsDisk = NoFile]

(* FAISS.from_texts([placeholder], embeddings): one embedding call *)
from_texts(w, f) ==
    IF f = "embed" THEN [w EXCEPT !.raised = TRUE, !.fault = "embed"]
    ELSE [w EXCEPT !.vectorstore = <<Placeholder>>]

refresh_memory_noguard(w, f) ==
    LET a == [w EXCEPT !.memory = <<>>]
        b == os_remove(a, f)
    IN  IF b.raised THEN b
        ELSE [b EXCEPT !.out = Append(@, "memory refreshed")]

refresh_memory(w, f) ==
    LET a == [w EXCEPT !.memory = <<>>]
        b == IF path_exists(a.memFile) THEN os_remove(a, f) ELSE a
    IN  IF b.raised THEN b
        ELSE [b EXCEPT !.out = Append(@, "memory refreshed")]

refresh_vectorstore_empty(w, f) ==
    LET a == IF f = "embed" THEN from_texts(w, f)
             ELSE [w EXCEPT !.vectorstore = <<>>]
    IN  IF a.raised THEN a
        ELSE IF path_exists(a.vsDisk)
            THEN LET b == shutil_rmtree(a, f)
                 IN  IF b.raised
                     THEN [b EXCEPT !.raised = FALSE,
                                    !.out = Append(@, "vectorstore delete failed")]
                     ELSE [b EXCEPT !.out = Append(@, "vectorstore refreshed")]
        ELSE [a EXCEPT !.out = Append(@, "vectorstore refreshed")]

refresh_vectorstore(w, f) ==
    LET a == from_texts(w, f)
    IN  IF a.raised THEN a
        ELSE IF path_exists(a.vsDisk)
            THEN LET b == shutil_rmtree(a, f)
                 IN  IF b.raised
                     THEN [b EXCEPT !.raised = FALSE,
                                    !.out = Append(@, "vectorstore delete failed")]
                     ELSE [b EXCEPT !.out = Append(@, "vectorstore refreshed")]
        ELSE [a EXCEPT !.out = Append(@, "vectorstore refreshed")]

refresh_all(w, f) ==
    LET a == refresh_memory(w, f)
    IN  IF a.raised THEN a
        ELSE LET b == refresh_vectorstore(a, f)
             IN  IF b.raised THEN b
                 ELSE [b EXCEPT !.out = Append(@, "all refreshed")]

RefreshFaults == {"none", "remove", "embed", "rmtree_whole", "rmtree_partial"}

(* is_valid_save_command(user_input): d is the answer of llm.invoke and   *)
(* f = "llm" makes that call fail; calls counts the llm.invoke calls made  *)
is_valid_save_command_nofilter(s, d, f) ==
    IF f = "llm" THEN [calls |-> 1, raised |-> TRUE, value |-> FALSE]
    ELSE [calls |-> 1, raised |-> FALSE, value |-> Contains(Affirm, d)]

is_valid_save_command(s, d, f) ==
    IF ~Contains(Trigger, s) THEN [calls |-> 0, raised |-> FALSE, value |-> FALSE]
    ELSE IF f = "llm" THEN [calls |-> 1, raised |-> TRUE, value |-> FALSE]
    ELSE [calls |-> 1, raised |-> FALSE, value |-> Contains(Affirm, d)]

(* similarity_search(query, k): the k nearest texts, or all of them when   *)
(* the index holds fewer; which ones is the embedding's choice             *)
SearchResults(store, k) ==
    LET n == IF Len(store) < k THEN Len(store) ELSE k
    IN  {[i \in 1..n |-> store[p[i]]] :
            p \in {q \in [1..n -> 1..Len(store)] :
                     \A i, j \in 1..n : i # j => q[i] # q[j]}}

----------------------------------------------------------------------------
(* The process *)

NoPre == [memory |-> <<>>, memFile |-> NoFile, vectorstore |-> <<>>,
          vsDisk |-> NoFile]

Snapshot == [memory |-> memory, memFile |-> memFile,
             vectorstore |-> vectorstore, vsDisk |-> vsDisk]

NoExit == [valid |-> FALSE, cause |-> "none", result |-> "none",
           memory |-> <<>>, vectorstore |-> <<>>]

Init ==
    /\ prevExit = NoExit
    /\ pc = "NotStarted"
    /\ memory = <<>>
    /\ memLoaded = FALSE
    /\ vectorstore = <<>>
    /\ vsLoaded = FALSE
    /\ memFile = NoFile
    /\ vsDisk = NoFile
    /\ user_input = <<>>
    /\ verdict = "none"
    /\ summary = <<>>
    /\ retrieved = <<>>
    /\ trace = <<>>
    /\ out = <<>>
    /\ pre = NoPre
    /\ returned = "none"
    /\ fault = "none"
    /\ saves = <<>>
    /\ exitCause = "none"

Locals == <<user_input, verdict, summary, retrieved>>
Ghosts == <<trace, out, pre, returned, fault, saves, exitCause>>
Stores == <<memory, memLoaded, vectorstore, vsLoaded, memFile, vsDisk>>

(* lines 32-37: the process stops when PAGE_ID is not set *)
StartConfig ==
    /\ pc = "NotStarted"
    /\ \E pageIdSet \in BOOLEAN :
          pc' = IF pageIdSet THEN "LoadMemory" ELSE "ConfigError"
    /\ UNCHANGED <<Stores, Locals, Ghosts>>
    /\ UNCHANGED prevExit

StartLoadMemory_Fresh ==
    /\ pc = "LoadMemory"
    /\ pc' = "LoadVectorstore"
    /\ memory' = <<>>
    /\ memLoaded' = TRUE
    /\ UNCHANGED <<vectorstore, vsLoaded, memFile, vsDisk, Locals, Ghosts>>
    /\ UNCHANGED prevExit

(* line 67, load_memory: a torn file makes pickle.load raise *)
StartLoadMemory ==
    /\ pc = "LoadMemory"
    /\ IF memFile.kind = "torn"
          THEN /\ pc' = "StartupCrashed"
               /\ UNCHANGED <<memory, memLoaded>>
          ELSE /\ pc' = "LoadVectorstore"
               /\ memory' = IF path_exists(memFile) THEN memFile.data ELSE <<>>
               /\ memLoaded' = TRUE
    /\ UNCHANGED <<vectorstore, vsLoaded, memFile, vsDisk, Locals, Ghosts>>
    /\ UNCHANGED prevExit

StartLoadVectorstore_NoSave ==
    /\ pc = "LoadVectorstore"
    /\ IF path_exists(vsDisk)
          THEN /\ IF vsDisk.kind = "torn"
                     THEN /\ pc' = "StartupCrashed"
                          /\ UNCHANGED <<vectorstore, vsLoaded>>
                     ELSE /\ pc' = "Idle"
                          /\ vectorstore' = vsDisk.data
                          /\ vsLoaded' = TRUE
               /\ returned' = "load_local"
               /\ UNCHANGED <<vsDisk, fault>>
          ELSE \E f \in {"none", "embed", "save_whole", "save_partial"} :
                  /\ fault' = f
                  /\ returned' = IF f = "none" THEN "from_texts" ELSE "none"
                  /\ IF f = "none"
                        THEN /\ pc' = "Idle"
                             /\ vectorstore' = <<Placeholder>>
                             /\ vsLoaded' = TRUE
                             /\ vsDisk' = vsDisk
                        ELSE /\ pc' = "StartupCrashed"
                             /\ vsDisk' = IF f = "save_partial" THEN TornFile
                                          ELSE vsDisk
                             /\ UNCHANGED <<vectorstore, vsLoaded>>
    /\ UNCHANGED <<memory, memLoaded, memFile, Locals,
                   trace, out, pre, saves, exitCause>>
    /\ UNCHANGED prevExit

(* line 109, load_vectorstore *)
StartLoadVectorstore ==
    /\ pc = "LoadVectorstore"
    /\ IF path_exists(vsDisk)
          THEN /\ IF vsDisk.kind = "torn"
                     THEN /\ pc' = "StartupCrashed"
                          /\ UNCHANGED <<vectorstore, vsLoaded>>
                     ELSE /\ pc' = "Idle"
                          /\ vectorstore' = vsDisk.data
                          /\ vsLoaded' = TRUE
               /\ returned' = "load_local"
               /\ UNCHANGED <<vsDisk, fault>>
          ELSE \E f \in {"none", "embed", "save_whole", "save_partial"} :
                  /\ fault' = f
                  /\ returned' = IF f = "none" THEN "from_texts" ELSE "none"
                  /\ IF f = "none"
                        THEN /\ pc' = "Idle"
                             /\ vectorstore' = <<Placeholder>>
                             /\ vsLoaded' = TRUE
                             /\ vsDisk' = FullFile(<<Placeholder>>)
                        ELSE /\ pc' = "StartupCrashed"
                             /\ vsDisk' = IF f = "save_partial" THEN TornFile
                                          ELSE vsDisk
                             /\ UNCHANGED <<vectorstore, vsLoaded>>
    /\ UNCHANGED <<memory, memLoaded, memFile, Locals,
                   trace, out, pre, saves, exitCause>>
    /\ UNCHANGED prevExit

(* line 148: input() returns a line; the locals of the last turn are gone *)
Read(s) ==
    /\ pc = "Idle"
    /\ user_input' = s
    /\ verdict' = "none"
    /\ summary' = <<>>
    /\ retrieved' = <<>>
    /\ pre' = Snapshot
    /\ prevExit' = NoExit

(* line 148: input() raises (end of input, interrupt) and binds nothing *)
InputRaises ==
    /\ Read(<<>>)
    /\ pc' = "Finally"
    /\ exitCause' = "error"
    /\ fault' = "input"
    /\ trace' = <<>>
    /\ out' = <<>>
    /\ returned' = "none"
    /\ UNCHANGED <<Stores, saves>>

(* lines 149-150 *)
CmdExit ==
    \E s \in Inputs :
        /\ Lower(s) \in ExitWords
        /\ Read(s)
        /\ pc' = "Finally"
        /\ exitCause' = "exit"
        /\ trace' = <<>>
        /\ out' = <<>>
        /\ returned' = "none"
        /\ fault' = "none"
        /\ UNCHANGED <<Stores, saves>>

(* The end of a refresh command whose function call produced world w *)
RefreshDone(name, w) ==
    /\ memory' = w.memory
    /\ memFile' = w.memFile
    /\ vectorstore' = w.vectorstore
    /\ vsDisk' = w.vsDisk
    /\ out' = w.out
    /\ fault' = w.fault
    /\ trace' = <<>>
    /\ pc' = IF w.raised THEN "Finally" ELSE "Idle"
    /\ exitCause' = IF w.raised THEN "error" ELSE "none"
    /\ returned' = IF w.raised THEN "none" ELSE name
    /\ UNCHANGED <<memLoaded, vsLoaded, saves>>

(* lines 151-153 *)
CmdRefreshAll ==
    \E s \in Inputs, f \in RefreshFaults :
        /\ Lower(s) \notin ExitWords
        /\ Lower(s) \in RefreshAllWords
        /\ Read(s)
        /\ RefreshDone("refresh_all", refresh_all(World, f))

(* lines 154-156 *)
CmdRefreshMemory ==
    \E s \in Inputs, f \in RefreshFaults :
        /\ Lower(s) \notin ExitWords \cup RefreshAllWords
        /\ Lower(s) = RefreshMemoryWord
        /\ Read(s)
        /\ RefreshDone("refresh_memory", refresh_memory(World, f))

CmdRefreshVectorstore_All ==
    \E s \in Inputs, f \in RefreshFaults :
        /\ Lower(s) \notin ExitWords \cup RefreshAllWords
        /\ Lower(s) # RefreshMemoryWord
        /\ Lower(s) = RefreshVectorstoreWord
        /\ Read(s)
        /\ RefreshDone("refresh_vectorstore", refresh_all(World, f))

(* lines 157-159 *)
CmdRefreshVectorstore ==
    \E s \in Inputs, f \in RefreshFaults :
        /\ Lower(s) \notin ExitWords \cup RefreshAllWords
        /\ Lower(s) # RefreshMemoryWord
        /\ Lower(s) = RefreshVectorstoreWord
        /\ Read(s)
        /\ RefreshDone("refresh_vectorstore", refresh_vectorstore(World, f))

IsCommand(s) ==
    \/ Lower(s) \in ExitWords \cup RefreshAllWords
    \/ Lower(s) = RefreshMemoryWord
    \/ Lower(s) = RefreshVectorstoreWord

ReadDialogue_AppendsFirst ==
    \E s \in Inputs :
        /\ ~IsCommand(s)
        /\ Read(s)
        /\ pc' = "Classifying"
        /\ memory' = Append(memory, Turn("user", s))
        /\ trace' = <<Ev("add_user_message", s, <<>>, <<>>, 0, TRUE, <<>>)>>
        /\ out' = <<>>
        /\ returned' = "none"
        /\ fault' = "none"
        /\ exitCause' = "none"
        /\ UNCHANGED <<memLoaded, vectorstore, vsLoaded, memFile, vsDisk, saves>>

(* lines 148-161: any other line starts a dialogue turn *)
ReadDialogue ==
    \E s \in Inputs :
        /\ ~IsCommand(s)
        /\ Read(s)
        /\ pc' = "Classifying"
        /\ trace' = <<>>
        /\ out' = <<>>
        /\ returned' = "none"
        /\ fault' = "none"
        /\ exitCause' = "none"
        /\ UNCHANGED <<Stores, saves>>

Raise_NoFinally(f) ==
    /\ pc' = "Terminated"
    /\ exitCause' = "error"
    /\ fault' = f

(* An exception raised inside the try block of line 146 *)
Raise(f) ==
    /\ pc' = "Finally"
    /\ exitCause' = "error"
    /\ fault' = f

(* line 161: is_valid_save_command(user_input), and the branch taken *)
Classify ==
    /\ pc = "Classifying"
    /\ \E d \in Decisions, f \in {"none", "llm"} :
          LET r == is_valid_save_command(user_input, d, f)
              e == Ev("classify_llm", user_input, <<>>, <<>>, 0, ~r.raised,
                      IF r.raised THEN <<>> ELSE d)
          IN  /\ trace' = IF r.calls = 0 THEN trace ELSE Append(trace, e)
              /\ IF r.raised
                    THEN /\ Raise("llm")
                         /\ UNCHANGED <<verdict, out>>
                    ELSE /\ r.value => Len(vectorstore) < MaxEntries
                         /\ ~r.value => Len(memory) + 2 <= MaxHist
                         /\ verdict' = IF r.value THEN "true" ELSE "false"
                         /\ pc' = IF r.value THEN "Summarizing" ELSE "Conversing"
                         /\ out' = IF r.value THEN Append(out, "save detected")
                                   ELSE out
                         /\ UNCHANGED <<fault, exitCause>>
    /\ UNCHANGED <<Stores, user_input, summary, retrieved, pre, returned, saves>>
    /\ UNCHANGED prevExit

(* lines 163-171: the summary of the whole history *)
Summarize ==
    /\ pc = "Summarizing"
    /\ \E r \in Replies, f \in {"none", "llm"} :
          /\ trace' = Append(trace,
                 Ev("summarize_llm", <<>>, Contents(memory), <<>>, 0, f = "none",
                    IF f = "none" THEN r ELSE <<>>))
          /\ out' = Append(out, "summary prompt")
          /\ IF f = "none"
                THEN /\ summary' = r
                     /\ pc' = "Publishing"
                     /\ UNCHANGED <<fault, exitCause>>
                ELSE /\ Raise(f)
                     /\ UNCHANGED summary
    /\ UNCHANGED <<Stores, user_input, verdict, retrieved, pre, returned, saves>>
    /\ UNCHANGED prevExit

(* line 174, append_to_page(PAGE_ID, summary) *)
Publish ==
    /\ pc = "Publishing"
    /\ \E f \in {"none", "publish"} :
          /\ trace' = Append(trace,
                 Ev("publish", summary, <<>>, <<>>, 0, f = "none", <<>>))
          /\ IF f = "none"
                THEN /\ out' = Append(out, "page appended")
                     /\ pc' = "Adding"
                     /\ UNCHANGED <<fault, exitCause>>
                ELSE /\ Raise(f)
                     /\ UNCHANGED out
    /\ UNCHANGED <<Stores, Locals, pre, returned, saves>>
    /\ UNCHANGED prevExit

AddTexts_AppendsSummary ==
    /\ pc = "Adding"
    /\ \E f \in {"none", "embed"} :
          /\ trace' = Append(trace,
                 Ev("add_texts", summary, <<>>, <<>>, 0, f = "none", <<>>))
          /\ IF f = "none"
                THEN /\ vectorstore' = Append(vectorstore, summary)
                     /\ memory' = Append(memory, Turn("assistant", summary))
                     /\ out' = Append(out, "summary added")
                     /\ pc' = "SavingVs"
                     /\ UNCHANGED <<fault, exitCause>>
                ELSE /\ Raise(f)
                     /\ UNCHANGED <<vectorstore, memory, out>>
    /\ UNCHANGED <<memLoaded, vsLoaded, memFile, vsDisk, Locals, pre,
                   returned, saves>>
    /\ UNCHANGED prevExit

(* lines 177-178, vectorstore.add_texts([summary]) *)
AddTexts ==
    /\ pc = "Adding"
    /\ \E f \in {"none", "embed"} :
          /\ trace' = Append(trace,
                 Ev("add_texts", summary, <<>>, <<>>, 0, f = "none", <<>>))
          /\ IF f = "none"
                THEN /\ vectorstore' = Append(vectorstore, summary)
                     /\ out' = Append(out, "summary added")
                     /\ pc' = "SavingVs"
                     /\ UNCHANGED <<fault, exitCause>>
                ELSE /\ Raise(f)
                     /\ UNCHANGED <<vectorstore, out>>
    /\ UNCHANGED <<memory, memLoaded, vsLoaded, memFile, vsDisk, Locals, pre,
                   returned, saves>>
    /\ UNCHANGED prevExit

SaveVectorstore_Skips ==
    /\ pc = "SavingVs"
    /\ trace' = trace
    /\ fault' = "none"
    /\ pc' = "Idle"
    /\ returned' = "persisting"
    /\ UNCHANGED <<Stores, Locals, out, pre, saves, exitCause>>
    /\ UNCHANGED prevExit

SaveVectorstore_NoCatch ==
    /\ pc = "SavingVs"
    /\ \E f \in {"none", "save_whole", "save_partial"} :
          /\ trace' = Append(trace,
                 Ev("save_local", <<>>, vectorstore, <<>>, 0, f = "none", <<>>))
          /\ vsDisk' = CASE f = "none" -> FullFile(vectorstore)
                         [] f = "save_whole" -> vsDisk
                         [] f = "save_partial" -> TornFile
          /\ fault' = f
          /\ pc' = IF f = "none" THEN "Idle" ELSE "Finally"
          /\ returned' = IF f = "none" THEN "persisting" ELSE "none"
          /\ exitCause' = IF f = "none" THEN exitCause ELSE "error"
    /\ UNCHANGED <<memory, memLoaded, vectorstore, vsLoaded, memFile, Locals,
                   out, pre, saves>>
    /\ UNCHANGED prevExit

(* lines 180-183, save_vectorstore(vectorstore) inside try/except *)
SaveVectorstore ==
    /\ pc = "SavingVs"
    /\ \E f \in {"none", "save_whole", "save_partial"} :
          /\ trace' = Append(trace,
                 Ev("save_local", <<>>, vectorstore, <<>>, 0, f = "none", <<>>))
          /\ vsDisk' = CASE f = "none" -> FullFile(vectorstore)
                         [] f = "save_whole" -> vsDisk
                         [] f = "save_partial" -> TornFile
          /\ out' = IF f = "none" THEN out
                    ELSE Append(out, "vectorstore save failed")
          /\ fault' = f
    /\ pc' = "Idle"
    /\ returned' = "persisting"
    /\ UNCHANGED <<memory, memLoaded, vectorstore, vsLoaded, memFile, Locals,
                   pre, saves, exitCause>>
    /\ UNCHANGED prevExit

AppendUser_AsAssistant ==
    /\ pc = "Conversing"
    /\ memory' = Append(memory, Turn("assistant", user_input))
    /\ trace' = Append(trace,
           Ev("add_user_message", user_input, <<>>, <<>>, 0, TRUE, <<>>))
    /\ pc' = "Searching"
    /\ UNCHANGED <<memLoaded, vectorstore, vsLoaded, memFile, vsDisk, Locals,
                   out, pre, returned, fault, saves, exitCause>>
    /\ UNCHANGED prevExit

AppendUser_Saves ==
    /\ pc = "Conversing"
    /\ memory' = Append(memory, Turn("user", user_input))
    /\ memFile' = FullFile(memory')
    /\ trace' = Append(trace,
           Ev("add_user_message", user_input, <<>>, <<>>, 0, TRUE, <<>>))
    /\ pc' = "Searching"
    /\ UNCHANGED <<memLoaded, vectorstore, vsLoaded, vsDisk, Locals,
                   out, pre, returned, fault, saves, exitCause>>
    /\ UNCHANGED prevExit

(* line 188, memory.chat_memory.add_user_message(user_input) *)
AppendUser ==
    /\ pc = "Conversing"
    /\ memory' = Append(memory, Turn("user", user_input))
    /\ trace' = Append(trace,
           Ev("add_user_message", user_input, <<>>, <<>>, 0, TRUE, <<>>))
    /\ pc' = "Searching"
    /\ UNCHANGED <<memLoaded, vectorstore, vsLoaded, memFile, vsDisk, Locals,
                   out, pre, returned, fault, saves, exitCause>>
    /\ UNCHANGED prevExit

(* lines 190-192, vectorstore.similarity_search(user_query, k=2) *)
Search ==
    /\ pc = "Searching"
    /\ \E f \in {"none", "embed"} :
          IF f = "none"
             THEN \E docs \in SearchResults(vectorstore, K) :
                     /\ retrieved' = docs
                     /\ trace' = Append(trace,
                            Ev("similarity_search", user_input, <<>>, docs, K,
                               TRUE, <<>>))
                     /\ pc' = "Responding"
                     /\ UNCHANGED <<fault, exitCause>>
             ELSE /\ trace' = Append(trace,
                         Ev("similarity_search", user_input, <<>>, <<>>, K,
                            FALSE, <<>>))
                  /\ Raise(f)
                  /\ UNCHANGED retrieved
    /\ UNCHANGED <<Stores, user_input, verdict, summary, out, pre, returned,
                   saves>>
    /\ UNCHANGED prevExit

Respond_Prepends ==
    /\ pc = "Responding"
    /\ \E r \in Replies, f \in {"none", "llm"} :
          IF f = "none"
             THEN /\ trace' = trace \o
                        <<Ev("respond_llm", user_input, Contents(memory),
                             retrieved, 0, TRUE, r),
                          Ev("add_ai_message", r, <<>>, <<>>, 0, TRUE, <<>>)>>
                  /\ memory' = <<Turn("assistant", r)>> \o memory
                  /\ out' = Append(out, "reply")
                  /\ pc' = "Idle"
                  /\ returned' = "conversing"
                  /\ UNCHANGED <<fault, exitCause>>
             ELSE /\ trace' = Append(trace,
                         Ev("respond_llm", user_input, Contents(memory),
                            retrieved, 0, FALSE, <<>>))
                  /\ Raise(f)
                  /\ UNCHANGED <<memory, out, returned>>
    /\ UNCHANGED <<memLoaded, vectorstore, vsLoaded, memFile, vsDisk, Locals,
                   pre, saves>>
    /\ UNCHANGED prevExit

Respond_DropsReply ==
    /\ pc = "Responding"
    /\ \E r \in Replies, f \in {"none", "llm"} :
          IF f = "none"
             THEN /\ trace' = Append(trace,
                         Ev("respond_llm", user_input, Contents(memory),
                            retrieved, 0, TRUE, r))
                  /\ out' = Append(out, "reply")
                  /\ pc' = "Idle"
                  /\ returned' = "conversing"
                  /\ UNCHANGED <<memory, fault, exitCause>>
             ELSE /\ trace' = Append(trace,
                         Ev("respond_llm", user_input, Contents(memory),
                            retrieved, 0, FALSE, <<>>))
                  /\ Raise(f)
                  /\ UNCHANGED <<memory, out, returned>>
    /\ UNCHANGED <<memLoaded, vectorstore, vsLoaded, memFile, vsDisk, Locals,
                   pre, saves>>
    /\ UNCHANGED prevExit

(* lines 195-198: the reply, and add_ai_message(result) *)
Respond ==
    /\ pc = "Responding"
    /\ \E r \in Replies, f \in {"none", "llm"} :
          IF f = "none"
             THEN /\ trace' = trace \o
                        <<Ev("respond_llm", user_input, Contents(memory),
                             retrieved, 0, TRUE, r),
                          Ev("add_ai_message", r, <<>>, <<>>, 0, TRUE, <<>>)>>
                  /\ memory' = Append(memory, Turn("assistant", r))
                  /\ out' = Append(out, "reply")
                  /\ pc' = "Idle"
                  /\ returned' = "conversing"
                  /\ UNCHANGED <<fault, exitCause>>
             ELSE /\ trace' = Append(trace,
                         Ev("respond_llm", user_input, Contents(memory),
                            retrieved, 0, FALSE, <<>>))
                  /\ Raise(f)
                  /\ UNCHANGED <<memory, out, returned>>
    /\ UNCHANGED <<memLoaded, vectorstore, vsLoaded, memFile, vsDisk, Locals,
                   pre, saves>>
    /\ UNCHANGED prevExit

(* lines 200-201 and 56: save_memory(memory) opens memory.pkl for writing, *)
(* which empties it                                                        *)
SaveOpen ==
    /\ pc = "Finally"
    /\ \E f \in {"none", "open"} :
          /\ saves' = Append(saves,
                 [arg |-> memory, before |-> memFile,
                  result |-> IF f = "none" THEN "dumping" ELSE "open failed"])
          /\ memFile' = IF f = "none" THEN TornFile ELSE memFile
          /\ pc' = IF f = "none" THEN "Dumping" ELSE "Terminated"
    /\ UNCHANGED <<memory, memLoaded, vectorstore, vsLoaded, vsDisk, Locals,
                   trace, out, pre, returned, fault, exitCause>>
    /\ UNCHANGED prevExit

(* lines 57 and 202: pickle.dump writes the file *)
SaveDump ==
    /\ pc = "Dumping"
    /\ \E f \in {"none", "dump"} :
          /\ saves' = [saves EXCEPT ![Len(saves)].result =
                          IF f = "none" THEN "done" ELSE "dump failed"]
          /\ memFile' = IF f = "none" THEN FullFile(memory) ELSE TornFile
          /\ out' = IF f = "none" THEN Append(out, "memory saved") ELSE out
    /\ pc' = "Terminated"
    /\ UNCHANGED <<memory, memLoaded, vectorstore, vsLoaded, vsDisk, Locals,
                   trace, pre, returned, fault, exitCause>>
    /\ UNCHANGED prevExit

(* The process is stopped from outside while pickle.dump is writing *)
Kill ==
    /\ pc = "Dumping"
    /\ pc' = "Killed"
    /\ saves' = [saves EXCEPT ![Len(saves)].result = "killed"]
    /\ UNCHANGED <<Stores, Locals, trace, out, pre, returned, fault, exitCause>>
    /\ UNCHANGED prevExit

(* The program is started again; the durable copies are all that is left *)
Restart ==
    /\ pc \in {"ConfigError", "StartupCrashed", "Terminated", "Killed"}
    /\ pc' = "NotStarted"
    /\ memory' = <<>>
    /\ memLoaded' = FALSE
    /\ vectorstore' = <<>>
    /\ vsLoaded' = FALSE
    /\ user_input' = <<>>
    /\ verdict' = "none"
    /\ summary' = <<>>
    /\ retrieved' = <<>>
    /\ trace' = <<>>
    /\ out' = <<>>
    /\ pre' = NoPre
    /\ returned' = "none"
    /\ fault' = "none"
    /\ saves' = <<>>
    /\ exitCause' = "none"
    /\ prevExit' = IF vsLoaded
                      THEN [valid |-> TRUE, cause |-> exitCause,
                            result |-> IF saves = <<>> THEN "none"
                                       ELSE saves[1].result,
                            memory |-> memory, vectorstore |-> vectorstore]
                      ELSE prevExit
    /\ UNCHANGED <<memFile, vsDisk>>

Next ==
    \/ StartConfig
    \/ StartLoadMemory
    \/ StartLoadVectorstore
    \/ InputRaises
    \/ CmdExit
    \/ CmdRefreshAll
    \/ CmdRefreshMemory
    \/ CmdRefreshVectorstore
    \/ ReadDialogue
    \/ Classify
    \/ Summarize
    \/ Publish
    \/ AddTexts
    \/ SaveVectorstore
    \/ AppendUser
    \/ Search
    \/ Respond
    \/ SaveOpen
    \/ SaveDump
    \/ Kill
    \/ Restart

Spec == Init /\ [][Next]_vars

(* The runs in which no write and no deletion of the durable index fails:  *)
(* save_local and shutil.rmtree always succeed                             *)
IndexFaults == {"rmtree_whole", "rmtree_partial", "save_whole", "save_partial"}

NextQuiet ==
    \/ StartConfig
    \/ StartLoadMemory
    \/ (StartLoadVectorstore /\ fault' \notin IndexFaults)
    \/ InputRaises
    \/ CmdExit
    \/ (CmdRefreshAll /\ fault' \notin IndexFaults)
    \/ CmdRefreshMemory
    \/ (CmdRefreshVectorstore /\ fault' \notin IndexFaults)
    \/ ReadDialogue
    \/ Classify
    \/ Summarize
    \/ Publish
    \/ AddTexts
    \/ (SaveVectorstore /\ fault' \notin IndexFaults)
    \/ AppendUser
    \/ Search
    \/ Respond
    \/ SaveOpen
    \/ SaveDump
    \/ Kill
    \/ Restart

SpecQuiet == Init /\ [][NextQuiet]_vars

----------------------------------------------------------------------------
(* Properties *)

InDialogueTurn == user_input # <<>> /\ ~IsCommand(user_input)
InRefresh ==
    \/ Lower(user_input) \in RefreshAllWords
    \/ Lower(user_input) = RefreshMemoryWord
    \/ Lower(user_input) = RefreshVectorstoreWord
LeftLoop == pc \in {"Finally", "Dumping", "Terminated", "Killed"}
Calls(op) == {i \in 1..Len(trace) : trace[i].op = op}
Ops(t) == [i \in 1..Len(t) |-> t[i].op]
IsPrefix(a, b) == Len(a) <= Len(b) /\ SubSeq(b, 1, Len(a)) = a

(* C1: after refresh_vectorstore has returned (called by its own command   *)
(* or by refresh_all), the durable index is absent or holds exactly the    *)
(* entries of the in-memory store, whether or not the deletion succeeded.  *)
C1_RefreshLeavesStoresInAgreement ==
    (pc = "Idle" /\ returned \in {"refresh_vectorstore", "refresh_all"})
        => (vsDisk = NoFile \/ vsDisk = FullFile(vectorstore))

(* C2: a failed capability call (generation, embedding, publish) in a      *)
(* dialogue turn never makes the process leave the loop.                   *)
C2_CapabilityFailureKeepsSession ==
    (InDialogueTurn /\ fault \in {"llm", "embed", "publish"}) => ~LeftLoop

(* C3: save_memory is not called while the loop runs, and on every path    *)
(* out of the loop (exit command, or an error raised by input(), a turn or *)
(* a refresh command) it is called exactly once, with the memory as it is  *)
(* when the loop is left.                                                  *)
C3_SaveMemoryOnceOnExit ==
    /\ pc \notin {"Dumping", "Terminated", "Killed"} => saves = <<>>
    /\ pc \in {"Dumping", "Terminated", "Killed"} =>
          /\ Len(saves) = 1
          /\ saves[1].arg = memory
          /\ exitCause \in {"exit", "error"}

C3_Witness ==
    /\ pc = "Terminated"
    /\ exitCause = "error"
    /\ fault = "llm"
    /\ Len(saves) = 1
    /\ saves[1].arg # <<>>
    /\ saves[1].result = "done"

(* C4: when the process has stopped during or after save_memory, the       *)
(* durable history file is the complete file from before the call or the   *)
(* complete new one.                                                       *)
C4_SaveMemoryAtomic ==
    (pc \in {"Killed", "Terminated"} /\ Len(saves) = 1) =>
        (memFile = saves[1].before \/ memFile = FullFile(saves[1].arg))

(* C5: a Persisting turn that has run to its end made exactly one          *)
(* summarizer call, over the contents of all turns of the history in       *)
(* order, made exactly one publish call with the summarizer's output,      *)
(* added exactly one entry with that output as its text to the vector      *)
(* store, and left the history as it was before the turn.                  *)
C5_PersistingTurn ==
    (pc = "Idle" /\ returned = "persisting") =>
        /\ Cardinality(Calls("summarize_llm")) = 1
        /\ Cardinality(Calls("publish")) = 1
        /\ Cardinality(Calls("add_texts")) = 1
        /\ \A i \in Calls("summarize_llm") :
              /\ trace[i].ok
              /\ trace[i].ctx = [j \in 1..Len(pre.memory) |-> pre.memory[j].content]
              /\ \A j \in Calls("publish") :
                    trace[j].ok /\ trace[j].text = trace[i].res
              /\ vectorstore = pre.vectorstore \o <<trace[i].res>>
        /\ memory = pre.memory

C5_Witness ==
    /\ pc = "Idle"
    /\ returned = "persisting"
    /\ Len(pre.memory) = 2
    /\ Len(vectorstore) = 2
    /\ vectorstore[2] = <<"r2">>

(* C6: in a Conversing turn the calls come in the order add_user_message,  *)
(* similarity_search (with the raw input and k = 2), the responder's       *)
(* llm.invoke, add_ai_message; a turn that has run to its end has made all *)
(* four, one responder call, and has grown the history by the user's input *)
(* followed by the responder's output.                                     *)
C6_ConversingTurn ==
    (InDialogueTurn /\ verdict = "false") =>
        LET t == SelectSeq(trace, LAMBDA e : e.op # "classify_llm")
            order == <<"add_user_message", "similarity_search",
                       "respond_llm", "add_ai_message">>
        IN  /\ IsPrefix(Ops(t), order)
            /\ Len(t) >= 1 =>
                  /\ t[1].text = user_input
                  /\ Len(memory) > Len(pre.memory)
                  /\ memory[Len(pre.memory) + 1] = [role |-> "user", content |-> user_input]
            /\ Len(t) >= 2 => (t[2].text = user_input /\ t[2].k = 2)
            /\ (pc = "Idle" /\ returned = "conversing") =>
                  /\ Len(t) = 4
                  /\ t[3].ok
                  /\ memory = pre.memory \o
                        <<[role |-> "user", content |-> user_input],
                          [role |-> "assistant", content |-> t[3].res]>>

C6_Witness ==
    /\ pc = "Idle"
    /\ returned = "conversing"
    /\ user_input = <<"ho", "zon">>
    /\ Len(memory) = 2
    /\ memory[2].content = <<"r2">>

(* C7: while the classifier's verdict for the current input has not been   *)
(* obtained, the history is the one from before the turn: nothing has been *)
(* appended.                                                               *)
C7_ClassifyBeforeAppend ==
    (InDialogueTurn /\ verdict = "none") =>
        /\ memory = pre.memory
        /\ Calls("add_user_message") = {}
        /\ Calls("add_ai_message") = {}

C7_Witness ==
    /\ pc = "Searching"
    /\ verdict = "false"
    /\ Len(trace) = 2
    /\ trace[1].op = "classify_llm"
    /\ trace[2].op = "add_user_message"
    /\ memory = Append(pre.memory, [role |-> "user", content |-> user_input])

TriggerIn(s) == \E i \in 1..Len(s) : i < Len(s) /\ s[i] = "ho" /\ s[i + 1] = "zon"
AffirmIn(d) == \E i \in 1..Len(d) : i < Len(d) /\ d[i] = "ha" /\ d[i + 1] = "i"

(* C8: once is_valid_save_command is over, it has made no llm.invoke call  *)
(* and returned false when the input lacks the trigger token, and it has   *)
(* made exactly one call when the input contains it, returning true if and *)
(* only if the answer contains the affirmative token (and nothing when the *)
(* call failed).                                                           *)
C8_Classifier ==
    InDialogueTurn =>
        /\ pc = "Classifying" => (Calls("classify_llm") = {} /\ verdict = "none")
        /\ (pc # "Classifying" /\ ~TriggerIn(user_input)) =>
              (Calls("classify_llm") = {} /\ verdict = "false")
        /\ (pc # "Classifying" /\ TriggerIn(user_input)) =>
              /\ Calls("classify_llm") = {1}
              /\ trace[1].text = user_input
              /\ verdict = "true" <=> (trace[1].ok /\ AffirmIn(trace[1].res))
              /\ verdict = "false" <=> (trace[1].ok /\ ~AffirmIn(trace[1].res))

C8_Witness ==
    /\ pc = "Summarizing"
    /\ verdict = "true"
    /\ trace[1].op = "classify_llm"
    /\ trace[1].res = <<"i", "ha", "i">>

(* C9: from the end of startup on the in-memory vector store holds at      *)
(* least one entry; right after load_vectorstore found no durable index,   *)
(* and right after refresh_vectorstore, it holds exactly the placeholder.  *)
C9_StoreNeverEmpty ==
    /\ vsLoaded => Len(vectorstore) >= 1
    /\ (pc = "Idle" /\ returned \in {"from_texts", "refresh_vectorstore", "refresh_all"})
          => vectorstore = <<Placeholder>>

C9_Witness ==
    /\ pc = "Idle"
    /\ returned = "refresh_vectorstore"
    /\ Len(pre.vectorstore) = 2
    /\ vectorstore = <<Placeholder>>

(* C10: a refresh call into which no storage or embedding failure is       *)
(* injected raises no error and ends in the reset state of its stores      *)
(* (empty history and no history file; placeholder-only store and no       *)
(* durable index), whatever the state it starts from, the reset state      *)
(* included: calling it again changes nothing.                             *)
C10_RefreshIdempotent ==
    /\ (InRefresh /\ LeftLoop) => fault \in {"remove", "embed"}
    /\ (pc = "Idle" /\ fault = "none" /\ returned \in {"refresh_memory", "refresh_all"})
          => (memory = <<>> /\ memFile = NoFile)
    /\ (pc = "Idle" /\ fault = "none" /\ returned \in {"refresh_vectorstore", "refresh_all"})
          => (vectorstore = <<Placeholder>> /\ vsDisk = NoFile)

C10_Witness ==
    /\ pc = "Idle"
    /\ returned = "refresh_all"
    /\ fault = "none"
    /\ pre = [memory |-> <<>>, memFile |-> NoFile,
              vectorstore |-> <<Placeholder>>, vsDisk |-> NoFile]
    /\ Snapshot = pre

(* C11: the `refresh memory` command leaves the in-memory vector store and *)
(* the durable index as they were, and the `refresh vectorstore` command   *)
(* leaves the in-memory history and the durable history file as they were, *)
(* whether the command returns or raises.                                  *)
C11_RefreshesIndependent ==
    /\ (pc \in {"Idle", "Finally"} /\ Lower(user_input) = RefreshMemoryWord)
          => (vectorstore = pre.vectorstore /\ vsDisk = pre.vsDisk)
    /\ (pc \in {"Idle", "Finally"} /\ Lower(user_input) = RefreshVectorstoreWord)
          => (memory = pre.memory /\ memFile = pre.memFile)

C11_Witness ==
    /\ pc = "Idle"
    /\ returned = "refresh_vectorstore"
    /\ fault = "none"
    /\ Len(pre.vectorstore) = 2
    /\ vsDisk = NoFile
    /\ Len(memory) = 2
    /\ memFile.kind = "full"

(* C12: the durable history file changes only in the save at the exit of   *)
(* the loop (save_memory, entered from the finally block) and in the       *)
(* removal by refresh_memory (the refresh and refresh memory commands); no *)
(* step of a Conversing or Persisting turn changes it.                     *)
C12_HistoryFileWrittenOnlyAtExit ==
    [][memFile' # memFile =>
          \/ pc \in {"Finally", "Dumping"}
          \/ /\ pc = "Idle"
             /\ \/ Lower(user_input') \in RefreshAllWords
                \/ Lower(user_input') = RefreshMemoryWord
             /\ memFile' = NoFile]_vars

C12_Witness ==
    /\ pc = "Idle"
    /\ returned = "conversing"
    /\ Len(memory) = 2
    /\ memFile = FullFile(<<>>)
    /\ memFile = pre.memFile

C14_HistoryRoundTrip ==
    /\ (pc = "Terminated" /\ Len(saves) = 1 /\ saves[1].result = "done")
          => (memFile.kind = "full" /\ memFile.data = memory)
    /\ (pc = "LoadVectorstore" /\ memFile.kind = "full") => memory = memFile.data
    /\ (pc \in {"LoadVectorstore", "Idle"} /\ prevExit.valid /\ prevExit.result = "done")
          => memory = prevExit.memory

C14_Witness ==
    /\ pc = "Idle"
    /\ prevExit.valid
    /\ prevExit.cause = "exit"
    /\ prevExit.result = "done"
    /\ Len(prevExit.memory) = 2
    /\ memory = prevExit.memory

(* C15: in every step of a running process (the load at startup and the   *)
(* start of a new process apart) the new history is the old one with turns *)
(* added at its end, or it is the empty history set by refresh_memory in a *)
(* refresh or refresh memory command.                                      *)
C15_HistoryAppendOnly ==
    [][(pc # "LoadMemory" /\ pc' # "NotStarted") =>
          \/ IsPrefix(memory, memory')
          \/ /\ memory' = <<>>
             /\ pc = "Idle"
             /\ \/ Lower(user_input') \in RefreshAllWords
                \/ Lower(user_input') = RefreshMemoryWord]_vars

C15_Witness ==
    /\ pc = "Idle"
    /\ returned = "refresh_memory"
    /\ Len(pre.memory) = 2
    /\ memory = <<>>

(* C16: a missing PAGE_ID stops the process before the history or the      *)
(* vector store is loaded or initialized, and nothing else than a missing  *)
(* PAGE_ID ends the process except the exit command: once the loop runs it *)
(* is left only by exit/quit (the end of the input stream, where input()   *)
(* itself raises, is counted with them).                                   *)
C16_OnlyConfigMissingTerminates ==
    /\ pc = "ConfigError" =>
          (~memLoaded /\ ~vsLoaded /\ memory = <<>> /\ vectorstore = <<>>)
    /\ pc \in {"Finally", "Dumping", "Terminated"} =>
          (exitCause = "exit" \/ fault = "input")

(* C17: when the deletion of the durable index fails, the refresh command  *)
(* prints no success message: neither refresh_vectorstore's nor            *)
(* refresh_all's.                                                          *)
C17_NoSuccessAfterFailedDelete ==
    (InRefresh /\ fault \in {"rmtree_whole", "rmtree_partial"}) =>
        \A i \in 1..Len(out) :
            out[i] \notin {"vectorstore refreshed", "all refreshed"}

(* C18: load_vectorstore, when it finds no durable index and returns, has  *)
(* bound a placeholder-only store and written a durable index holding      *)
(* exactly that store; when it finds a durable index it writes nothing and *)
(* returns the store the index holds (so the load that follows an          *)
(* initialization returns the same store).                                 *)
C18_LoadOrInit ==
    [][pc = "LoadVectorstore" =>
          IF path_exists(vsDisk)
             THEN /\ vsDisk' = vsDisk
                  /\ pc' = "Idle" => (vsLoaded' /\ vectorstore' = vsDisk.data)
             ELSE pc' = "Idle" =>
                     /\ vsLoaded'
                     /\ vectorstore' = <<Placeholder>>
                     /\ vsDisk'.kind = "full"
                     /\ vsDisk'.data = vectorstore']_vars

C18_Witness ==
    /\ pc = "Idle"
    /\ returned = "from_texts"
    /\ vectorstore = <<Placeholder>>
    /\ vsDisk = FullFile(vectorstore)

(* C19: in the runs where no write and no deletion of the durable index    *)
(* fails, at every Idle state either the durable index is absent and the   *)
(* in-memory store is placeholder-only, or the durable index holds exactly *)
(* the entries of the in-memory store; and the store a new process has     *)
(* after startup is the in-memory store the previous process ended with.   *)
C19_IndexAgreesAtIdle ==
    /\ pc = "Idle" =>
          \/ (vsDisk = NoFile /\ vectorstore = <<Placeholder>>)
          \/ (vsDisk.kind = "full" /\ vsDisk.data = vectorstore)
    /\ (pc = "Idle" /\ prevExit.valid) => vectorstore = prevExit.vectorstore

C19_Witness ==
    /\ pc = "Idle"
    /\ returned = "load_local"
    /\ prevExit.valid
    /\ prevExit.cause = "exit"
    /\ Len(prevExit.vectorstore) = 2
    /\ vectorstore = prevExit.vectorstore

(* C20, as claimed: at every Idle state the history has even length and   *)
(* alternates user turn, assistant turn, starting with a user turn.        *)
C20_HistoryAlternates ==
    pc = "Idle" =>
        /\ Len(memory) % 2 = 0
        /\ \A i \in 1..Len(memory) :
              memory[i].role = IF i % 2 = 1 THEN "user" ELSE "assistant"

(* C20, amended: at every Idle state every assistant turn of the history   *)
(* directly follows a user turn (the history never starts with an          *)
(* assistant turn and never holds two assistant turns in a row); a user    *)
(* turn may be without its reply, when an earlier process ended on an      *)
(* error between add_user_message and add_ai_message and saved that log.   *)
C20_RepliesFollowUserTurns ==
    pc = "Idle" =>
        \A i \in 1..Len(memory) :
            memory[i].role = "assistant" =>
                (i > 1 /\ memory[i - 1].role = "user")

C20_Witness ==
    /\ pc = "Idle"
    /\ prevExit.valid
    /\ prevExit.cause = "error"
    /\ prevExit.result = "done"
    /\ Len(memory) = 1
    /\ memory[1].role = "user"

====
